---------------------------- MODULE Spec2Model ----------------------------
(***************************************************************************)
(* A model of rp_why_baseline.py (class RPWhyBaseline and main): the DOK   *)
(* tier classifier, the stage estimator, the trajectory calculation, the   *)
(* distribution and weekly aggregation, and the init/show/export/compare   *)
(* commands with the sessions database and the baseline file.              *)
(*                                                                         *)
(* Numbers.  Tier averages are kept as exact fractions or in hundredths;   *)
(* percentages in tenths.  Where the code's result depends on IEEE-754     *)
(* double rounding (calculate_trajectory) doubles are modelled exactly, as *)
(* multiples of 2^-55 held in base-2^18 limbs.                             *)
(***************************************************************************)
EXTENDS Integers, Sequences, FiniteSets, TLC

VARIABLES
    text,           \* classify_dok: the argument (a str, or None)
    classified,     \* classify_dok: the returned tuple, or Pending
    avg_dok,        \* estimate_stage: the average tier, a fraction
    domain_count,   \* estimate_stage: the number of working directories
    stage,          \* estimate_stage: the returned stage, or 0 before the call
    weekly_scores,  \* calculate_trajectory: the avg_dok of each weekly entry, in hundredths
    trajectory,     \* calculate_trajectory: the returned label, or "pending"
    dok_counts,     \* generate_baseline: dok_counts, tier -> number of prompts
    dok_scores,     \* generate_baseline: dok_scores, kept as its length and sum
    dok_distribution, \* generate_baseline: dok_distribution in tenths of a percent, or Pending
    prompts,        \* get_weekly_breakdown: parameter prompts
    weekly_breakdown, \* get_weekly_breakdown: the returned list, or Pending
    retained_weekly, \* generate_baseline: baseline['weekly_scores'], or Pending
    pc,             \* main: the position of the running command, "idle" between runs
    command,        \* main: sys.argv[1]
    runs,           \* number of commands started; the clock of datetime.now()
    store,          \* the sessions database as this run finds it
    conn,           \* RPWhyBaseline.conn: "none", "open" or "closed"
    queries,        \* the queries this run has executed
    summary,        \* generate_baseline: summary
    directories,    \* generate_baseline: directories
    baseline,       \* main: baseline, the value generate_baseline returned
    baseline_file,  \* the content of BASELINE_FILE
    loaded,         \* main: baseline, the value load_baseline returned
    output,         \* what this run has printed
    file_at_start,  \* history: baseline_file when the command started
    last_generated, \* history: the baseline of the last init that generated one
    last_saved,     \* history: the baseline of the last save that completed
    torn,           \* history: a save failed after truncating the file
    fetched,        \* get_all_user_prompts: cursor.fetchall(), the rows in query order
    raised          \* the exception that left the batch, or "none"

classifyVars == << text, classified >>
stageVars == << avg_dok, domain_count, stage >>
trajectoryVars == << weekly_scores, trajectory >>
distributionVars == << dok_counts, dok_scores, dok_distribution >>
weeklyVars == << prompts, weekly_breakdown, retained_weekly >>
processVars == << pc, command, runs, store, conn, queries, summary, directories,
                  baseline, loaded, output >>
fileVars == << baseline_file, file_at_start, last_generated, last_saved, torn >>
mainVars == << processVars, fileVars >>
batchVars == << fetched, raised >>
pipelineVars == << text, classified, avg_dok, domain_count, stage, weekly_scores,
                   trajectory, dok_counts, dok_scores, dok_distribution, prompts,
                   weekly_breakdown, retained_weekly >>

\* Python's None, and the marker of a result not yet computed
None == [kind |-> "None"]
Pending == [kind |-> "pending"]
\* a list that has not been computed yet
NoList == << Pending >>
\* a str value: its tokens
Str(toks) == [kind |-> "str", toks |-> toks]

Max2(a, b) == IF a >= b THEN a ELSE b
Min2(a, b) == IF a <= b THEN a ELSE b

----------------------------------------------------------------------------
(* Texts.  A text is a sequence of tokens separated by single spaces; a    *)
(* token is a maximal run without spaces.  Every trigger pattern of        *)
(* DOK_PATTERNS is \b-delimited and made of whole words, so on texts over  *)
(* Vocabulary (no token contains a trigger word as a proper part) a        *)
(* pattern matches exactly when its words occur as consecutive tokens.     *)

\* Bounds of the classifier's inputs.
MaxTextLen == 3

Vocabulary ==
    {"how", "to", "syntax", "Fix", "add", "WHY", "design", "research",
     "novel", "hello"}

\* str.lower() on a token
Lower(tok) ==
    CASE tok = "Fix" -> "fix"
      [] tok = "WHY" -> "why"
      [] OTHER -> tok

\* text.lower()
LowerText(t) == [i \in 1..Len(t) |-> Lower(t[i])]

\* A pattern is a sequence of sets of admissible tokens (a singleton except
\* for the optional hyphen of trade-?off).
P1(a) == << {a} >>
P2(a, b) == << {a}, {b} >>
P3(a, b, c) == << {a}, {b}, {c} >>

DOK_PATTERNS ==
    << \* 1
       << P3("how", "do", "i"), P2("what", "is"), P1("syntax"), P1("command"),
          P1("where"), P2("show", "me"), P1("example"), P2("help", "with"),
          P2("what's", "the"), P2("how", "to"), P3("can", "you", "show") >>,
       \* 2
       << P1("implement"), P1("debug"), P1("fix"), P1("refactor"),
          P1("test"), P1("add"), P1("update"), P1("create"),
          P1("build"), P1("write"), P1("modify"), P1("change"),
          P1("remove"), P1("delete"), P1("install"), P1("setup") >>,
       \* 3
       << P1("design"), P1("architect"), P1("analyze"), P1("compare"),
          << {"trade-off", "tradeoff"} >>, P2("best", "approach"), P1("evaluate"),
          P1("strategy"), P1("why"), P1("implications"), P2("should", "we"),
          P1("review"), P1("optimize"), P1("improve"), P1("alternative"),
          P3("pros", "and", "cons"), P1("decision") >>,
       \* 4
       << P1("research"), P1("novel"), P1("innovate"), P1("transform"),
          P1("framework"), P1("long-term"), P1("evolve"), P1("vision"),
          P1("breakthrough"), P1("systematic"), P1("paradigm"),
          P1("fundamental"), P1("pioneer"), P1("groundbreaking") >> >>

Levels == 1..4

\* whether pattern p matches the tokens of t starting at position i
MatchAt(p, t, i) ==
    /\ i + Len(p) - 1 <= Len(t)
    /\ \A j \in 1..Len(p) : t[i + j - 1] \in p[j]

\* re.search(pattern, text_lower): the leftmost match position, 0 for no match
Search(p, t) ==
    IF \E i \in 1..Len(t) : MatchAt(p, t, i)
    THEN CHOOSE i \in 1..Len(t) :
            /\ MatchAt(p, t, i)
            /\ \A k \in 1..(i - 1) : ~MatchAt(p, t, k)
    ELSE 0

\* match.group(): the matched words
Group(p, t, i) == SubSeq(t, i, i + Len(p) - 1)

\* The two nested loops of classify_dok, one pattern per step, carrying
\* scores and matched.
RECURSIVE ScanPatterns(_, _, _, _)
ScanPatterns(lowered, level, pk, acc) ==
    IF level > 4 THEN acc
    ELSE IF pk > Len(DOK_PATTERNS[level]) THEN ScanPatterns(lowered, level + 1, 1, acc)
    ELSE LET pattern == DOK_PATTERNS[level][pk]
             at == Search(pattern, lowered)
         IN  IF at # 0
             THEN ScanPatterns(lowered, level, pk + 1,
                    [scores  |-> [acc.scores EXCEPT ![level] = @ + 1],
                     matched |-> Append(acc.matched, Group(pattern, lowered, at))])
             ELSE ScanPatterns(lowered, level, pk + 1, acc)

RECURSIVE SumScores(_, _)
SumScores(sc, lv) == IF lv = 0 THEN 0 ELSE sc[lv] + SumScores(sc, lv - 1)

MaxScore(scores) == CHOOSE m \in {scores[l] : l \in Levels} :
                        \A l \in Levels : scores[l] <= m

\* max(k for k, v in scores.items() if v == max_score)
TieBreakLowest(scores, m) ==
    CHOOSE l \in Levels : scores[l] = m /\ \A o \in Levels : scores[o] = m => o >= l
TieBreak(scores, m) ==
    CHOOSE l \in Levels : scores[l] = m /\ \A o \in Levels : scores[o] = m => o <= l

\* A confidence is the fraction num/den (0.3 is 3/10).
Frac(n, d) == [num |-> n, den |-> d]
FracEq(a, b) == a.num * b.den = b.num * a.den
FracLe(a, b) == a.num * b.den <= b.num * a.den

DefaultResult == [level |-> 2, confidence |-> Frac(3, 10), matched |-> << >>]

\* RPWhyBaseline.classify_dok
classify_dok(t) ==
    IF t = None \/ t = Str(<< >>) THEN DefaultResult
    ELSE LET acc == ScanPatterns(LowerText(t.toks), 1, 1,
                        [scores |-> [l \in Levels |-> 0], matched |-> << >>])
             total_matches == SumScores(acc.scores, 4)
         IN  IF total_matches = 0 THEN DefaultResult
             ELSE LET max_score == MaxScore(acc.scores)
                      level == TieBreak(acc.scores, max_score)
                      confidence == Frac(max_score, total_matches)
                  IN  [level |-> level,
                       confidence |-> IF FracLe(confidence, Frac(1, 1))
                                      THEN confidence ELSE Frac(1, 1),
                       matched |-> SubSeq(acc.matched, 1, Min2(5, Len(acc.matched)))]

RECURSIVE SeqsUpTo(_, _)
SeqsUpTo(Elems, maxlen) ==
    IF maxlen = 0 THEN { << >> }
    ELSE LET shorter == SeqsUpTo(Elems, maxlen - 1)
         IN  shorter \cup {Append(sq, el) : sq \in {w \in shorter : Len(w) = maxlen - 1},
                                             el \in Elems}

Texts == {Str(toks) : toks \in SeqsUpTo(Vocabulary, MaxTextLen)} \cup {None}

----------------------------------------------------------------------------
(* Stage estimation.                                                       *)

\* (dok_threshold in tenths, domain_threshold, stage).  A threshold such as
\* 3.2 is the double nearest to 3.2, and avg_dok is the correctly rounded
\* quotient of two small integers, so avg_dok >= 3.2 in doubles exactly when
\* the fraction is >= 32/10.
STAGE_THRESHOLDS_demoting ==
    << <<35, 5, 5>>, <<32, 4, 6>>, <<28, 3, 6>>, <<25, 2, 5>>, <<20, 1, 5>>, <<0, 0, 5>> >>
STAGE_THRESHOLDS_strict ==
    << <<35, 6, 7>>, <<32, 4, 6>>, <<28, 3, 6>>, <<25, 2, 5>>, <<20, 1, 5>>, <<0, 0, 5>> >>
STAGE_THRESHOLDS ==
    << <<35, 5, 7>>, <<32, 4, 6>>, <<28, 3, 6>>, <<25, 2, 5>>, <<20, 1, 5>>, <<0, 0, 5>> >>

\* avg_dok >= dok_threshold and domain_count >= domain_threshold
RuleMet(rule, avg, domains) ==
    /\ avg.num * 10 >= rule[1] * avg.den
    /\ domains >= rule[2]

\* the for loop of estimate_stage from rule k on, and the final return 5
RECURSIVE FirstRule(_, _, _, _)
FirstRule(rules, rk, avg, domains) ==
    IF rk > Len(rules) THEN 5
    ELSE IF RuleMet(rules[rk], avg, domains) THEN rules[rk][3]
    ELSE FirstRule(rules, rk + 1, avg, domains)

\* RPWhyBaseline.estimate_stage
estimate_stage(avg, domains) == FirstRule(STAGE_THRESHOLDS, 1, avg, domains)

\* Bounds of the estimator's inputs: averages 0.00 .. MaxAvgHundredths/100
MaxAvgHundredths == 420
MaxDomains == 6

----------------------------------------------------------------------------
(* Python floats.  A float of calculate_trajectory is an IEEE-754 double;   *)
(* a non-negative double that is 0 or at least 0.125 is a multiple of       *)
(* 2^-55, and is held as that multiple: a natural number in four base-2^18  *)
(* limbs, least significant first, the fourth unbounded.  Every operation   *)
(* rounds its exact result to 53 significant bits, ties to even.            *)

Base == 2 ^ 18
BigZero == << 0, 0, 0, 0 >>

\* the limbs of t1 + t2 * Base + t3 * Base^2 + t4 * Base^3 with the carries
\* (or borrows) propagated
Norm(t1, t2, t3, t4) ==
    LET u2 == t2 + (t1 \div Base)
        u3 == t3 + (u2 \div Base)
    IN  << t1 % Base, u2 % Base, u3 % Base, t4 + (u3 \div Base) >>

BigAdd(a, b) == Norm(a[1] + b[1], a[2] + b[2], a[3] + b[3], a[4] + b[4])
\* a - b for a >= b
BigSub(a, b) == Norm(a[1] - b[1], a[2] - b[2], a[3] - b[3], a[4] - b[4])
\* a * k for 0 <= k < 2^13
BigMul(a, k) == Norm(a[1] * k, a[2] * k, a[3] * k, a[4] * k)

BigLess(a, b) ==
    \/ a[4] < b[4]
    \/ a[4] = b[4] /\ a[3] < b[3]
    \/ a[4] = b[4] /\ a[3] = b[3] /\ a[2] < b[2]
    \/ a[4] = b[4] /\ a[3] = b[3] /\ a[2] = b[2] /\ a[1] < b[1]

\* a divided by d for 0 < d < 2^13: quotient and remainder, by long division
BigDiv(a, d) ==
    LET t3 == (a[4] % d) * Base + a[3]
        t2 == (t3 % d) * Base + a[2]
        t1 == (t2 % d) * Base + a[1]
    IN  [q |-> << t1 \div d, t2 \div d, t3 \div d, a[4] \div d >>, r |-> t1 % d]

\* the number of significant bits of 0 <= v < 2^31
BitsOf(v) == CHOOSE n \in 0..31 : v < 2 ^ n /\ (n = 0 \/ v >= 2 ^ (n - 1))

\* the number of significant bits of a
BitLen(a) ==
    IF a[4] # 0 THEN 54 + BitsOf(a[4])
    ELSE IF a[3] # 0 THEN 36 + BitsOf(a[3])
    ELSE IF a[2] # 0 THEN 18 + BitsOf(a[2])
    ELSE BitsOf(a[1])

\* The double nearest to x / d (ties to even): x / (d * 2^s) rounded to an
\* integer, times 2^s, where s is the number of bits of x / d beyond 53.
RoundQuot(x, d) ==
    LET s == Max2(BitLen(BigDiv(x, d).q) - 53, 0)
        scaled == d * (2 ^ s)
        qr == BigDiv(x, scaled)
        up == \/ 2 * qr.r > scaled
              \/ 2 * qr.r = scaled /\ qr.q[1] % 2 = 1
        q == IF up THEN BigAdd(qr.q, << 1, 0, 0, 0 >>) ELSE qr.q
    IN  BigMul(q, 2 ^ s)

\* 2^55 (one, in units of 2^-55)
BigOne == << 0, 0, 0, 2 >>

\* the double written n/d in decimal, as a literal (0.2) or as the result of
\* round(avg, 2), which is the double nearest to the rounded decimal
Double(hn, hd) == RoundQuot(BigMul(BigOne, hn), hd)

FAdd(fx, fy) == RoundQuot(BigAdd(fx, fy), 1)
\* x / n for an int n
FDivInt(gx, gn) == RoundQuot(gx, gn)

\* sum(half): from the int 0, left to right, each addition rounded
FSum(half) ==
    LET partial[upto \in 0..Len(half)] ==
            IF upto = 0 THEN BigZero
            ELSE FAdd(partial[upto - 1], Double(half[upto], 100))
    IN  partial[Len(half)]

\* sum(half) / len(half) if half else 0
FMean(half) == IF half = << >> THEN BigZero ELSE FDivInt(FSum(half), Len(half))

\* second_avg - first_avg > 0.2: the difference of two doubles rounded
FDiffGreater(second_avg, first_avg, n, d) ==
    /\ BigLess(first_avg, second_avg)
    /\ BigLess(Double(n, d), RoundQuot(BigSub(second_avg, first_avg), 1))

\* the same comparison with the mean difference taken exactly
\* RPWhyBaseline.calculate_trajectory, on the avg_dok values in hundredths
calculate_trajectory(scores) ==
    IF Len(scores) < 2 THEN "insufficient_data"
    ELSE LET mid == Len(scores) \div 2
             first_half == SubSeq(scores, 1, mid)
             second_half == SubSeq(scores, mid + 1, Len(scores))
             first_avg == FMean(first_half)
             second_avg == FMean(second_half)
         IN  IF FDiffGreater(second_avg, first_avg, 2, 10) THEN "improving"
             ELSE IF FDiffGreater(first_avg, second_avg, 2, 10) THEN "declining"
             ELSE "stable"

\* Bounds of the trajectory's inputs
MaxWeeklyLen == 6
WeeklyValues == {100, 120, 200, 220, 400}

----------------------------------------------------------------------------
(* The classification loop and the distribution of generate_baseline.      *)

\* dok_counts = {1: 0, 2: 0, 3: 0, 4: 0}; dok_scores = []
NoCounts == [l \in Levels |-> 0]
NoScores == [len |-> 0, sum |-> 0]

\* one text per outcome of the classifier: tiers 1 to 4 and the default
PromptTexts ==
    { Str(<< "how", "to" >>), Str(<< "Fix" >>), Str(<< "WHY" >>),
      Str(<< "research" >>), Str(<< "hello" >>) }

\* dok_level, _, _ = self.classify_dok(prompt['text']), for the texts above
dok_level == [t \in PromptTexts |-> classify_dok(t).level]

\* the body of "for prompt in prompts": classify, count, append the level
CountPrompt(counts, t) == [counts EXCEPT ![dok_level[t]] = @ + 1]
AppendScore(scores, t) ==
    [len |-> scores.len + 1, sum |-> scores.sum + dok_level[t]]

\* n / d rounded to an integer, ties to even, for n >= 0 and d > 0
RoundHalfEven(n, d) ==
    LET q == n \div d
        r == n % d
    IN  IF 2 * r > d \/ (2 * r = d /\ q % 2 = 1) THEN q + 1 ELSE q

\* round(v / total_prompts * 100, 1), in tenths of a percent.  v / total * 100
\* is a tie of round(., 1) only when 2000 * v / total is an odd integer, which
\* needs total to be a multiple of 16; the quotient and the product are then
\* exact for the totals modelled, and a tie goes to the even digit.
RoundTenthsDown(v, total) == (1000 * v) \div total
RoundTenths(v, total) == RoundHalfEven(1000 * v, total)

\* sum(dok_counts.values())
TotalPrompts(counts) == counts[1] + counts[2] + counts[3] + counts[4]

\* dok_distribution: round(v / total_prompts * 100, 1) if total_prompts > 0 else 0
Distribution(counts) ==
    [l \in Levels |-> IF TotalPrompts(counts) > 0
                      THEN RoundTenths(counts[l], TotalPrompts(counts))
                      ELSE 0]

\* Bound of the number of prompts classified in one run
MaxPrompts == 16

----------------------------------------------------------------------------
(* Weekly rollups: get_weekly_breakdown and the weeks kept in the baseline. *)

\* a session_date: an ISO date given by its year and day of the year, a string
\* datetime.fromisoformat rejects, or None
Date(y, d) == [kind |-> "date", year |-> y, yday |-> d]
Garbage == [kind |-> "garbage"]

IsLeap(y) == (y % 4 = 0 /\ y % 100 # 0) \/ y % 400 = 0
DaysInYear(y) == IF IsLeap(y) THEN 366 ELSE 365

\* weekday of the first of January, Monday = 0
Jan1Weekday(y) ==
    (1 + 5 * ((y - 1) % 4) + 4 * ((y - 1) % 100) + 6 * ((y - 1) % 400) + 6) % 7

\* date.weekday()
Weekday(date) == (Jan1Weekday(date.year) + date.yday - 1) % 7

\* %W: week of the year, Monday first; days before the first Monday are week 0
WeekNumber(date) == (date.yday + 6 - Weekday(date)) \div 7

\* date.strftime('%Y-W%W'): the digits of the key, year then week
WeekKey(date) ==
    << date.year \div 1000, (date.year \div 100) % 10, (date.year \div 10) % 10,
       date.year % 10, WeekNumber(date) \div 10, WeekNumber(date) % 10 >>

\* str < str on keys of equal length
StrLess(ka, kb) ==
    \E i \in 1..Len(ka) : ka[i] < kb[i] /\ \A j \in 1..(i - 1) : ka[j] = kb[j]

\* the prompts that reach weekly[week].append: a truthy session_date that parses
HasWeek(pr) == pr.session_date.kind = "date"

\* weekly[week] for one week: the levels of its prompts, in prompt order
WeekScores(ps, key) ==
    LET InWeek(pr) == HasWeek(pr) /\ WeekKey(pr.session_date) = key
        sel == SelectSeq(ps, InWeek)
    IN  [k \in 1..Len(sel) |-> dok_level[sel[k].text]]

\* sum(scores)
SumScoresOf(scores) ==
    LET part[k \in 0..Len(scores)] == IF k = 0 THEN 0 ELSE part[k - 1] + scores[k]
    IN  part[Len(scores)]

\* round(x, 2) of a double, in hundredths: the exact value of 100 x rounded
\* to an integer, an exact tie going to the even one
FRound2(fx) ==
    LET m == BigMul(fx, 100)
        q == m[4] \div 2
        up == m[4] % 2 = 1 /\ (m[1] # 0 \/ m[2] # 0 \/ m[3] # 0 \/ q % 2 = 1)
    IN  IF up THEN q + 1 ELSE q

\* round(avg, 2) in hundredths, avg being the double total / count
RoundHundredths(total, count) == FRound2(Double(total, count))

\* sorted(weekly.keys())
SortedKeys(keys) ==
    [i \in 1..Cardinality(keys) |->
        CHOOSE w \in keys : Cardinality({v \in keys : StrLess(v, w)}) = i - 1]

get_weekly_breakdown(ps) ==
    LET keys == {WeekKey(ps[i].session_date) : i \in {j \in 1..Len(ps) : HasWeek(ps[j])}}
        order == SortedKeys(keys)
    IN  [i \in 1..Len(order) |->
            LET scores == WeekScores(ps, order[i])
            IN  [week |-> order[i],
                 avg_dok |-> RoundHundredths(SumScoresOf(scores), Len(scores)),
                 prompt_count |-> Len(scores)]]

\* weekly_scores[-12:]
RetainedWeeks == 12
FirstWeeks(ws) == SubSeq(ws, 1, Min2(Len(ws), RetainedWeeks))
LastWeeks(ws) == SubSeq(ws, Max2(Len(ws) - RetainedWeeks, 0) + 1, Len(ws))

\* Bound of the number of distinct weeks in a prompt list
MaxWeeks == 14

\* Bound of the number of further prompts put in front of the weekly ones
MaxExtra == 2

\* the i-th Wednesday from 2024-12-04 on: 2024-W49 .. 2024-W52, 2025-W00, ...
WeekDate(i) ==
    LET d == 339 + 7 * (i - 1)
    IN  IF d > DaysInYear(2024) THEN Date(2025, d - DaysInYear(2024)) ELSE Date(2024, d)

WeeklyTexts == << Str(<< "how", "to" >>), Str(<< "Fix" >>), Str(<< "research" >>) >>

Prompt(date, t) == [session_date |-> date, text |-> t]

\* one prompt per week for the first n weeks, oldest or newest first
WeeklyPrompts(n, newestFirst) ==
    [i \in 1..n |->
        LET k == IF newestFirst THEN n + 1 - i ELSE i
        IN  Prompt(WeekDate(k), WeeklyTexts[(k % 3) + 1])]

\* further prompts: a Monday and a Sunday of weeks above, Monday 2024-12-30
\* (2024-W53), and session dates that are skipped
ExtraPrompts ==
    { Prompt(d, t) : d \in { Date(2024, 337), Date(2024, 364), Date(2024, 365),
                             Date(2025, 5), None, Garbage },
                     t \in { WeeklyTexts[3] } }

----------------------------------------------------------------------------
(* The sessions database and the three queries.                            *)

\* rows of the tables sessions and messages
Session(id, type, created, dir, tokens) ==
    [id |-> id, session_type |-> type, created_at |-> created,
     working_dir |-> dir, total_tokens |-> tokens]
Message(sid, role, content, ts) ==
    [session_id |-> sid, role |-> role, content_json |-> content,
     created_timestamp |-> ts]

\* content_json: a JSON array of items, or a text json.loads rejects, or NULL
TextItem(t) == [type |-> "text", text |-> t]
ImageItem == [type |-> "image", text |-> None]
Json(items) == [kind |-> "json", items |-> items]
EmptyStr == Str(<< >>)
\* a column value that may be NULL: an int
Number(n) == [kind |-> "int", v |-> n]

SessionPool ==
    { Session(1, "user", Date(2024, 339), "/a", Number(100)),
      Session(2, "user", Date(2025, 8), "/b", None),
      Session(3, "scheduled", Date(2024, 346), "/c", Number(50)),
      Session(4, "user", None, "/a", Number(7)) }

MessagePool ==
    { Message(1, "user", Json(<< TextItem(Str(<< "WHY" >>)) >>), 10),
      Message(1, "assistant", Json(<< TextItem(Str(<< "hello" >>)) >>), 11),
      Message(1, "user", Json(<< TextItem(EmptyStr) >>), 12),
      Message(2, "user", Json(<< ImageItem, TextItem(Str(<< "research" >>)) >>), 5),
      Message(2, "user", Garbage, 6),
      Message(2, "user", None, 7),
      Message(3, "user", Json(<< TextItem(Str(<< "WHY" >>)) >>), 8),
      Message(4, "user", Json(<< TextItem(Str(<< "how", "to" >>)) >>), 9),
      Message(4, "user", Json(<< ImageItem >>), 13) }

\* a database: whether the file exists and opens, the query that fails if any,
\* and its sessions; its messages are those of MessagePool for these sessions
Faults == {"none", "summary", "prompts", "directories"}
Stores ==
    { [access |-> "missing", fault |-> "none", sessions |-> {}],
      [access |-> "unopenable", fault |-> "none", sessions |-> {}] }
    \cup { [access |-> "ok", fault |-> f, sessions |-> ss] :
              f \in Faults, ss \in SUBSET SessionPool }
NoStore == [access |-> "none", fault |-> "none", sessions |-> {}]

\* WHERE session_type = 'user'
AllSessions(st) == st.sessions
UserSessions(st) == {s \in st.sessions : s.session_type = "user"}

\* date.toordinal(), and the order of created_at strings of one format
Ordinal(date) ==
    365 * (date.year - 1) + (date.year - 1) \div 4 - (date.year - 1) \div 100
        + (date.year - 1) \div 400 + date.yday
DateLess(da, db) == Ordinal(da) < Ordinal(db)

\* get_data_summary: MIN, MAX over the non-NULL created_at, COUNT(*)
SummaryOf(rows) ==
    LET dates == {s.created_at : s \in {r \in rows : r.created_at # None}}
        earliest == CHOOSE d \in dates : \A o \in dates : ~DateLess(o, d)
        latest == CHOOSE d \in dates : \A o \in dates : ~DateLess(d, o)
    IN  IF dates = {}
        THEN [sessions |-> 0, earliest |-> None, latest |-> None, days |-> 0]
        ELSE [sessions |-> Cardinality(rows), earliest |-> earliest,
              latest |-> latest, days |-> Ordinal(latest) - Ordinal(earliest)]
get_data_summary_all(st) == SummaryOf(AllSessions(st))
get_data_summary(st) == SummaryOf(UserSessions(st))

\* the first item tagged as text: item.get('text', ''), or None
ExtractText(content) ==
    LET texts == {i \in 1..Len(content.items) : content.items[i].type = "text"}
    IN  IF texts = {} THEN None
        ELSE content.items[CHOOSE i \in texts : \A k \in texts : i <= k].text

\* json.loads or the loop over its result raises: a text that is not JSON
\* (JSONDecodeError), NULL, or a JSON number, boolean or null (TypeError)
LoopRaises(content) == content.kind \in {"garbage", "None", "scalar"}

\* text after the loop over the items; the keys of a JSON object are strings,
\* not dicts, and leave text = None
TextAfterLoop(content) ==
    IF content.kind = "json" THEN ExtractText(content) ELSE None

\* "if text:": None, '' and 0 are false
Truthy(v) == v \notin {None, EmptyStr, Number(0)}

\* json.loads(row['content_json']) succeeds and "if text:" holds
HasText(row) ==
    /\ ~LoopRaises(row.content_json)
    /\ Truthy(TextAfterLoop(row.content_json))

\* the loop over cursor.fetchall(): the prompts of the rows that have a text
ExtractPrompts(rowseq) ==
    LET kept == SelectSeq(rowseq, HasText)
    IN  [i \in 1..Len(kept) |->
            [session_id |-> kept[i].session_id,
             session_date |-> kept[i].session_date,
             working_dir |-> kept[i].working_dir,
             text |-> TextAfterLoop(kept[i].content_json),
             timestamp |-> kept[i].created_timestamp]]

\* a row of the query: a message joined with its session
JoinedRow(m, s) ==
    [session_id |-> m.session_id, session_date |-> s.created_at,
     working_dir |-> s.working_dir, content_json |-> m.content_json,
     created_timestamp |-> m.created_timestamp]

\* the query of get_all_user_prompts: user messages of user sessions,
\* ORDER BY m.created_timestamp
FetchRows(st) ==
    LET rows == {m \in MessagePool :
                    /\ m.role = "user"
                    /\ \E s \in UserSessions(st) : s.id = m.session_id}
    IN  [i \in 1..Cardinality(rows) |->
            LET m == CHOOSE m \in rows :
                         Cardinality({o \in rows :
                             o.created_timestamp < m.created_timestamp}) = i - 1
            IN  JoinedRow(m, CHOOSE s \in UserSessions(st) : s.id = m.session_id)]

get_all_user_prompts(st) == ExtractPrompts(FetchRows(st))

\* SUM(total_tokens) over rows with a value, 0 when there is none
RECURSIVE SumTokens(_)
SumTokens(rows) ==
    IF rows = {} THEN 0
    ELSE LET r == CHOOSE r \in rows : TRUE
         IN  (IF r.total_tokens = None THEN 0 ELSE r.total_tokens.v)
                 + SumTokens(rows \ {r})

\* get_sessions_by_directory: working_dir -> count and tokens
get_sessions_by_directory(st) ==
    [d \in {s.working_dir : s \in UserSessions(st)} |->
        LET rows == {s \in UserSessions(st) : s.working_dir = d}
        IN  [count |-> Cardinality(rows), tokens |-> SumTokens(rows)]]

----------------------------------------------------------------------------
(* The baseline document, json.dump and json.load, and the baseline file.  *)

\* {'error': 'no_data', 'message': 'No sessions found in database'}
NoData == [error |-> "no_data", message |-> "No sessions found in database"]
IsSnapshot(b) == b \notin {None, Pending, NoData}

\* list(directories.items())[:10]: the directories come by session count,
\* largest first
DomainsKept == 10
FirstDomains(dirs) ==
    IF Cardinality(DOMAIN dirs) <= DomainsKept THEN dirs
    ELSE LET top == CHOOSE S \in SUBSET (DOMAIN dirs) :
                        /\ Cardinality(S) = DomainsKept
                        /\ \A a \in S, b \in (DOMAIN dirs) \ S :
                              dirs[a].count >= dirs[b].count
         IN  [d \in top |-> dirs[d]]

\* sum(dok_scores) / len(dok_scores) if dok_scores else 2.0
AverageRounded(scores) ==
    IF scores.len > 0 THEN Frac(RoundHundredths(scores.sum, scores.len), 100)
    ELSE Frac(2, 1)
AverageOf(scores) == IF scores.len > 0 THEN Frac(scores.sum, scores.len) ELSE Frac(2, 1)

\* [w['avg_dok'] for w in weekly_scores]
AvgDokOf(ws) == [i \in 1..Len(ws) |-> ws[i].avg_dok]

\* the dict built at the end of generate_baseline; percentages in tenths,
\* averages in hundredths
BuildBaseline(now, sm, counts, dist, avg, est, dirs, traj, ws) ==
    [generated_at |-> now,
     period |-> [start |-> sm.earliest, end |-> sm.latest, days |-> sm.days],
     sessions_analyzed |-> sm.sessions,
     prompts_classified |-> TotalPrompts(counts),
     dok_distribution |->
         [dok1 |-> dist[1], dok2 |-> dist[2], dok3 |-> dist[3], dok4 |-> dist[4]],
     dok_distribution_counts |->
         [dok1_count |-> counts[1], dok2_count |-> counts[2],
          dok3_count |-> counts[3], dok4_count |-> counts[4]],
     average_dok_score |-> RoundHundredths(avg.num, avg.den),
     estimated_stage |-> est,
     domain_count |-> Cardinality(DOMAIN dirs),
     domains |-> FirstDomains(dirs),
     trajectory |-> traj,
     weekly_scores |-> LastWeeks(ws)]

\* JSON values
JNum(n) == [json |-> "number", v |-> n]
JStr(x) == [json |-> "string", v |-> x]
JNull == [json |-> "null"]
JArr(items) == [json |-> "array", items |-> items]
JObj(members) == [json |-> "object", members |-> members]

\* json.dump of the values of a baseline
DumpDate(d) == IF d = None THEN JNull ELSE JStr(d)
DumpCounts(rec) == JObj({ << k, JNum(rec[k]) >> : k \in DOMAIN rec })
DumpDomains(dirs) == JObj({ << d, DumpCounts(dirs[d]) >> : d \in DOMAIN dirs })
DumpWeek(w) ==
    JObj({ << "week", JStr(w.week) >>, << "avg_dok", JNum(w.avg_dok) >>,
           << "prompt_count", JNum(w.prompt_count) >> })
DumpPeriod(pd) ==
    JObj({ << "start", DumpDate(pd.start) >>, << "end", DumpDate(pd.end) >>,
           << "days", JNum(pd.days) >> })

json_dump_no_weeks(b) ==
    JObj({ << "generated_at", JStr(b.generated_at) >>,
           << "average_dok_score", JNum(b.average_dok_score) >> })
json_dump(b) ==
    JObj({ << "generated_at", JStr(b.generated_at) >>,
           << "period", DumpPeriod(b.period) >>,
           << "sessions_analyzed", JNum(b.sessions_analyzed) >>,
           << "prompts_classified", JNum(b.prompts_classified) >>,
           << "dok_distribution", DumpCounts(b.dok_distribution) >>,
           << "dok_distribution_counts", DumpCounts(b.dok_distribution_counts) >>,
           << "average_dok_score", JNum(b.average_dok_score) >>,
           << "estimated_stage", JNum(b.estimated_stage) >>,
           << "domain_count", JNum(b.domain_count) >>,
           << "domains", DumpDomains(b.domains) >>,
           << "trajectory", JStr(b.trajectory) >>,
           << "weekly_scores",
              JArr([i \in 1..Len(b.weekly_scores) |-> DumpWeek(b.weekly_scores[i])]) >> })

\* json.load of a JSON value
RECURSIVE json_load(_)
json_load(jv) ==
    CASE jv.json = "number" -> jv.v
      [] jv.json = "string" -> jv.v
      [] jv.json = "null" -> None
      [] jv.json = "array" -> [i \in 1..Len(jv.items) |-> json_load(jv.items[i])]
      [] jv.json = "object" ->
            [k \in {m[1] : m \in jv.members} |->
                json_load((CHOOSE m \in jv.members : m[1] = k)[2])]

\* BASELINE_FILE: absent, a complete JSON text, or what a failed write left
Absent == [kind |-> "absent"]
Truncated == [kind |-> "truncated"]
FileText(jv) == [kind |-> "text", json |-> jv]

\* save_baseline, by what happens: the write completes, mkdir or open fails,
\* or the write fails after open(..., 'w') emptied the file
SaveOutcomes == {"saved", "not_opened", "write_failed"}
save_baseline(file, b, outcome) ==
    CASE outcome = "saved" -> FileText(json_dump(b))
      [] outcome = "not_opened" -> file
      [] outcome = "write_failed" -> Truncated

\* load_baseline: None when the file is absent, cannot be read or is not JSON
load_baseline(file, readable) ==
    IF file.kind = "text" /\ readable THEN json_load(file.json) ELSE None

\* close(): closes a connection if there is one
close_nothing(c) == c
close(c) == IF c = "open" THEN "closed" ELSE c

----------------------------------------------------------------------------
(* The classifier on its own: a text is drawn, classify_dok is applied.    *)

vars == << classifyVars, stageVars, trajectoryVars, distributionVars, weeklyVars,
           mainVars, batchVars >>

ClassifyUnused == text = None /\ classified = Pending
StageUnused == avg_dok = Frac(2, 1) /\ domain_count = 0 /\ stage = 0
TrajectoryUnused == weekly_scores = << >> /\ trajectory = "pending"
DistributionUnused ==
    dok_counts = NoCounts /\ dok_scores = NoScores /\ dok_distribution = Pending
WeeklyUnused ==
    prompts = << >> /\ weekly_breakdown = NoList /\ retained_weekly = NoList
ProcessUnused ==
    /\ pc = "idle" /\ command = "none" /\ store = NoStore /\ conn = "none"
    /\ queries = << >> /\ summary = Pending /\ directories = Pending
    /\ baseline = Pending /\ loaded = Pending /\ output = << >>
BatchUnused == fetched = << >> /\ raised = "none"
MainUnused ==
    /\ ProcessUnused
    /\ runs = 0
    /\ baseline_file = Absent /\ file_at_start = Absent
    /\ last_generated = None /\ last_saved = None /\ torn = FALSE

InitClassify ==
    /\ text \in Texts
    /\ classified = Pending
    /\ StageUnused
    /\ TrajectoryUnused
    /\ DistributionUnused
    /\ WeeklyUnused
    /\ MainUnused
    /\ BatchUnused

Classify ==
    /\ classified = Pending
    /\ classified' = classify_dok(text)
    /\ UNCHANGED << text, stageVars, trajectoryVars, distributionVars, weeklyVars, mainVars, batchVars >>

NextClassify == Classify

SpecClassify == InitClassify /\ [][NextClassify]_vars

\* the number of tier l's patterns that occur in the lower-cased text
MatchCount(t, l) ==
    IF t = None THEN 0
    ELSE Cardinality({k \in 1..Len(DOK_PATTERNS[l]) :
            \E i \in 1..Len(t.toks) : MatchAt(DOK_PATTERNS[l][k], LowerText(t.toks), i)})

\* the four tiers' counts
MatchCounts(t) == << MatchCount(t, 1), MatchCount(t, 2), MatchCount(t, 3), MatchCount(t, 4) >>

\* C1: with no pattern matching (or an empty or absent text) classify_dok
\* returns tier 2, confidence 0.3 and no evidence; otherwise the returned tier
\* has the maximum per-tier match count, no tied tier is numerically higher,
\* and the confidence is that count over the total of all tiers' counts (1.0
\* and tier 1 when only tier-1 patterns match).
C1_ClassifyDok ==
    classified # Pending =>
        LET n == MatchCounts(text)
            total == n[1] + n[2] + n[3] + n[4]
        IN  IF total = 0
            THEN /\ classified.level = 2
                 /\ classified.confidence = Frac(3, 10)
                 /\ classified.matched = << >>
            ELSE /\ classified.level \in Levels
                 /\ \A o \in Levels : n[o] <= n[classified.level]
                 /\ \A o \in Levels : n[o] = n[classified.level] => o <= classified.level
                 /\ FracEq(classified.confidence, Frac(n[classified.level], total))
                 /\ (n[1] = total
                        => classified.level = 1 /\ FracEq(classified.confidence, Frac(1, 1)))

\* a classified text in which two tiers tie for the maximum count
C1_Witness ==
    /\ classified # Pending
    /\ LET n == MatchCounts(text)
       IN  \E a, b \in Levels :
              /\ a < b
              /\ n[a] = n[b]
              /\ n[a] > 0
              /\ \A o \in Levels : n[o] <= n[a]

----------------------------------------------------------------------------
(* The estimator on its own: an average and a domain count are drawn,      *)
(* estimate_stage is applied.                                              *)

InitStage ==
    /\ avg_dok \in {Frac(n, 100) : n \in 0..MaxAvgHundredths}
    /\ domain_count \in 0..MaxDomains
    /\ stage = 0
    /\ ClassifyUnused
    /\ TrajectoryUnused
    /\ DistributionUnused
    /\ WeeklyUnused
    /\ MainUnused
    /\ BatchUnused

EstimateStage ==
    /\ stage = 0
    /\ stage' = estimate_stage(avg_dok, domain_count)
    /\ UNCHANGED << avg_dok, domain_count, classifyVars, trajectoryVars, distributionVars, weeklyVars, mainVars, batchVars >>

NextStage == EstimateStage

SpecStage == InitStage /\ [][NextStage]_vars

\* the rule list as the specification gives it
C2_Rules ==
    << <<35, 5, 7>>, <<32, 4, 6>>, <<28, 3, 6>>, <<25, 2, 5>>, <<20, 0, 5>>, <<0, 0, 5>> >>

AtLeast(avg, tenths) == avg.num * 10 >= tenths * avg.den

\* C2: estimate_stage returns the stage of the first rule of the ordered list
\* whose two thresholds are both met: 7 exactly when tier >= 3.5 and domains
\* >= 5; 6 exactly when that fails and (tier >= 3.2 and domains >= 4, or tier
\* >= 2.8 and domains >= 3); 5 otherwise.
C2_EstimateStage ==
    stage # 0 =>
        /\ stage = FirstRule(C2_Rules, 1, avg_dok, domain_count)
        /\ stage \in {5, 6, 7}
        /\ (stage = 7 <=> (AtLeast(avg_dok, 35) /\ domain_count >= 5))
        /\ (stage = 6 <=> /\ ~(AtLeast(avg_dok, 35) /\ domain_count >= 5)
                          /\ \/ (AtLeast(avg_dok, 32) /\ domain_count >= 4)
                             \/ (AtLeast(avg_dok, 28) /\ domain_count >= 3))

\* stage 6 was returned through the third rule only
C2_Witness ==
    /\ stage = 6
    /\ ~AtLeast(avg_dok, 32)
    /\ domain_count >= 5

\* C3: for the same domain count, no average at least as large gets a
\* smaller stage.
C3_StageMonotonic ==
    stage # 0 =>
        \A n \in 0..MaxAvgHundredths :
            FracLe(avg_dok, Frac(n, 100)) => stage <= estimate_stage(Frac(n, 100), domain_count)

\* an average whose stage a larger average strictly exceeds
C3_Witness ==
    /\ stage = 6
    /\ \E n \in 0..MaxAvgHundredths :
          /\ FracLe(avg_dok, Frac(n, 100))
          /\ estimate_stage(Frac(n, 100), domain_count) = 7

(* The trajectory on its own: a sequence of weekly averages is drawn,      *)
(* calculate_trajectory is applied.                                        *)

InitTrajectory ==
    /\ weekly_scores \in SeqsUpTo(WeeklyValues, MaxWeeklyLen)
    /\ trajectory = "pending"
    /\ ClassifyUnused
    /\ StageUnused
    /\ DistributionUnused
    /\ WeeklyUnused
    /\ MainUnused
    /\ BatchUnused

CalculateTrajectory ==
    /\ trajectory = "pending"
    /\ trajectory' = calculate_trajectory(weekly_scores)
    /\ UNCHANGED << weekly_scores, classifyVars, stageVars, distributionVars, weeklyVars, mainVars, batchVars >>

NextTrajectory == CalculateTrajectory

SpecTrajectory == InitTrajectory /\ [][NextTrajectory]_vars

RECURSIVE SumSeq(_)
SumSeq(ss) == IF ss = << >> THEN 0 ELSE ss[1] + SumSeq(Tail(ss))

\* (second-half mean - first-half mean) * 100 * mid * (n - mid), and 0.2 and
\* -0.2 on the same scale, for the split at n \div 2
C4_Mid(q) == Len(q) \div 2
C4_Diff(q) ==
    SumSeq(SubSeq(q, C4_Mid(q) + 1, Len(q))) * C4_Mid(q)
        - SumSeq(SubSeq(q, 1, C4_Mid(q))) * (Len(q) - C4_Mid(q))
C4_Fifth(q) == 20 * C4_Mid(q) * (Len(q) - C4_Mid(q))

\* C4: calculate_trajectory returns "insufficient_data" for fewer than 2
\* points; otherwise, splitting at length \div 2, "improving" when the
\* second-half mean exceeds the first-half mean by more than 0.2, "declining"
\* when it is lower by more than 0.2, and "stable" otherwise, a difference of
\* exactly 0.2 or -0.2 included.
C4_Trajectory ==
    trajectory # "pending" =>
        trajectory =
            IF Len(weekly_scores) < 2 THEN "insufficient_data"
            ELSE IF C4_Diff(weekly_scores) > C4_Fifth(weekly_scores) THEN "improving"
            ELSE IF C4_Diff(weekly_scores) < - C4_Fifth(weekly_scores) THEN "declining"
            ELSE "stable"

\* the same away from the two boundaries: the examples of the specification
C4_AwayFromBoundary ==
    (/\ trajectory # "pending"
     /\ Len(weekly_scores) >= 2
     /\ C4_Diff(weekly_scores) # C4_Fifth(weekly_scores)
     /\ C4_Diff(weekly_scores) # - C4_Fifth(weekly_scores))
        => C4_Trajectory

----------------------------------------------------------------------------
(* The classification loop on its own: prompts arrive one at a time, each  *)
(* is classified and counted; when the loop ends the distribution is       *)
(* computed.                                                               *)

InitDistribution ==
    /\ DistributionUnused
    /\ WeeklyUnused
    /\ MainUnused
    /\ BatchUnused
    /\ ClassifyUnused
    /\ StageUnused
    /\ TrajectoryUnused

ClassifyPrompt ==
    /\ dok_distribution = Pending
    /\ dok_scores.len < MaxPrompts
    /\ \E t \in PromptTexts :
          /\ dok_counts' = CountPrompt(dok_counts, t)
          /\ dok_scores' = AppendScore(dok_scores, t)
    /\ UNCHANGED << dok_distribution, classifyVars, stageVars, trajectoryVars, weeklyVars, mainVars, batchVars >>

ComputeDistribution ==
    /\ dok_distribution = Pending
    /\ dok_distribution' = Distribution(dok_counts)
    /\ UNCHANGED << dok_counts, dok_scores, classifyVars, stageVars, trajectoryVars, weeklyVars, mainVars, batchVars >>

NextDistribution == ClassifyPrompt \/ ComputeDistribution

SpecDistribution == InitDistribution /\ [][NextDistribution]_vars

C5_PercentSum ==
    dok_distribution[1] + dok_distribution[2] + dok_distribution[3] + dok_distribution[4]

C5_Off == IF C5_PercentSum >= 1000 THEN C5_PercentSum - 1000 ELSE 1000 - C5_PercentSum

\* C5 as stated: for N > 0 classified prompts the four stored percentages sum
\* to a value within 0.1 of 100, and the four counts sum to N.
C5_Original ==
    (dok_distribution # Pending /\ dok_scores.len > 0) =>
        /\ C5_Off <= 1
        /\ TotalPrompts(dok_counts) = dok_scores.len

\* C5 amended: for N > 0 classified prompts the four stored percentages sum
\* to a value within 0.2 of 100, and the four counts sum to N.
C5_Distribution ==
    (dok_distribution # Pending /\ dok_scores.len > 0) =>
        /\ C5_Off <= 2
        /\ TotalPrompts(dok_counts) = dok_scores.len

\* a distribution of 16 prompts whose percentages sum to 99.8
C5_Witness ==
    /\ dok_distribution # Pending
    /\ dok_scores.len = 16
    /\ C5_PercentSum = 998

----------------------------------------------------------------------------
(* The weekly breakdown on its own: a prompt list is drawn, the breakdown  *)
(* is computed and the baseline keeps its last weeks.                      *)

InitWeekly ==
    /\ \E n \in 0..MaxWeeks, newestFirst \in BOOLEAN,
          extra \in SeqsUpTo(ExtraPrompts, MaxExtra) :
          prompts = extra \o WeeklyPrompts(n, newestFirst)
    /\ weekly_breakdown = NoList
    /\ retained_weekly = NoList
    /\ ClassifyUnused
    /\ StageUnused
    /\ TrajectoryUnused
    /\ DistributionUnused
    /\ MainUnused
    /\ BatchUnused

GetWeeklyBreakdown ==
    /\ weekly_breakdown = NoList
    /\ weekly_breakdown' = get_weekly_breakdown(prompts)
    /\ retained_weekly' = LastWeeks(weekly_breakdown')
    /\ UNCHANGED << prompts, classifyVars, stageVars, trajectoryVars, distributionVars, mainVars, batchVars >>

NextWeekly == GetWeeklyBreakdown

SpecWeekly == InitWeekly /\ [][NextWeekly]_vars

\* the prompts of one week, and the sum of their tiers
C10_InWeek(key) ==
    {i \in 1..Len(prompts) :
        prompts[i].session_date \notin {None, Garbage}
        /\ WeekKey(prompts[i].session_date) = key}
C10_TierSum(key) ==
    LET n(l) == Cardinality({i \in C10_InWeek(key) : dok_level[prompts[i].text] = l})
    IN  n(1) + 2 * n(2) + 3 * n(3) + 4 * n(4)
C10_Observed ==
    {WeekKey(prompts[i].session_date) :
        i \in {j \in 1..Len(prompts) : prompts[j].session_date \notin {None, Garbage}}}

\* everything of C10 but the value of the average: one rollup per observed
\* week, strictly ascending keys, prompt counts, and the last min(12, n) kept
C10_Shape ==
    LET n == Len(weekly_breakdown)
        m == Len(retained_weekly)
    IN  /\ n = Cardinality(C10_Observed)
        /\ {weekly_breakdown[i].week : i \in 1..n} = C10_Observed
        /\ \A i \in 1..n, j \in 1..n :
              i < j => StrLess(weekly_breakdown[i].week, weekly_breakdown[j].week)
        /\ \A i \in 1..n :
              weekly_breakdown[i].prompt_count =
                  Cardinality(C10_InWeek(weekly_breakdown[i].week))
        /\ m = Min2(12, n)
        /\ \A k \in 1..m : retained_weekly[k] = weekly_breakdown[n - m + k]

\* C10 as stated: one rollup per observed week in strictly ascending week_key
\* order, average_tier equal to the mean tier of the week's prompts,
\* prompt_count equal to their number, and the last min(12, n) rollups kept
\* in the same order.
C10_Original ==
    weekly_breakdown # NoList =>
        /\ C10_Shape
        /\ \A i \in 1..Len(weekly_breakdown) :
              weekly_breakdown[i].avg_dok * weekly_breakdown[i].prompt_count =
                  100 * C10_TierSum(weekly_breakdown[i].week)

\* C10 amended: as above, but average_tier is the mean tier of the week's
\* prompts rounded to two decimals (at most 0.005 away from the mean).
C10_WeeklyBreakdown ==
    weekly_breakdown # NoList =>
        /\ C10_Shape
        /\ \A i \in 1..Len(weekly_breakdown) :
              LET off == weekly_breakdown[i].avg_dok * weekly_breakdown[i].prompt_count
                             - 100 * C10_TierSum(weekly_breakdown[i].week)
              IN  2 * off <= weekly_breakdown[i].prompt_count
                  /\ -2 * off <= weekly_breakdown[i].prompt_count

\* more than 12 weeks, given newest first, one of them with three prompts
\* whose mean is not a multiple of 0.01
C10_Witness ==
    /\ weekly_breakdown # NoList
    /\ Len(weekly_breakdown) > 12
    /\ Len(retained_weekly) = 12
    /\ Len(prompts) > 2
    /\ WeekKey(prompts[Len(prompts)].session_date) = weekly_breakdown[1].week
    /\ \E i \in 1..Len(weekly_breakdown) :
          /\ weekly_breakdown[i].prompt_count = 3
          /\ (100 * C10_TierSum(weekly_breakdown[i].week)) % 3 # 0

----------------------------------------------------------------------------
(* The program: commands run one after the other, each in its own process, *)
(* over a database the run finds as it is and the one baseline file.       *)

\* Bound of the number of commands run
MaxRuns == 3

Init ==
    /\ MainUnused
    /\ BatchUnused
    /\ ClassifyUnused
    /\ StageUnused
    /\ TrajectoryUnused
    /\ DistributionUnused
    /\ WeeklyUnused

\* main, command == 'init', up to the call of generate_baseline
StartInit ==
    /\ pc = "idle"
    /\ UNCHANGED batchVars
    /\ runs < MaxRuns
    /\ \E st \in Stores : store' = st
    /\ command' = "init"
    /\ runs' = runs + 1
    /\ pc' = "connect"
    /\ output' = << "analyzing" >>
    /\ file_at_start' = baseline_file
    /\ UNCHANGED << conn, queries, summary, directories, baseline, loaded,
                    baseline_file, last_generated, last_saved, torn, pipelineVars >>

\* main, command in show, export, compare, up to the call of load_baseline
StartLoad ==
    /\ pc = "idle"
    /\ UNCHANGED batchVars
    /\ runs < MaxRuns
    /\ \E c \in {"show", "export", "compare"} : command' = c
    /\ runs' = runs + 1
    /\ pc' = "load"
    /\ file_at_start' = baseline_file
    /\ UNCHANGED << store, conn, queries, summary, directories, baseline, loaded,
                    output, baseline_file, last_generated, last_saved, torn,
                    pipelineVars >>

\* generate_baseline: if not self.connect(): return None
Connect ==
    /\ pc = "connect"
    /\ UNCHANGED batchVars
    /\ CASE store.access = "missing" ->
               /\ output' = Append(output, "database not found")
               /\ baseline' = None /\ pc' = "returned" /\ UNCHANGED conn
         [] store.access = "unopenable" ->
               /\ output' = Append(output, "connection error")
               /\ baseline' = None /\ pc' = "returned" /\ UNCHANGED conn
         [] store.access = "ok" ->
               /\ conn' = "open" /\ pc' = "summary"
               /\ UNCHANGED << output, baseline >>
    /\ UNCHANGED << command, runs, store, queries, summary, directories, loaded,
                    fileVars, pipelineVars >>

\* a query raises sqlite3.Error: the finally clause closes the connection and
\* the exception leaves generate_baseline and main
Raised ==
    /\ conn' = close(conn)
    /\ pc' = "crashed"
    /\ output' = Append(output, "traceback")

\* summary = self.get_data_summary(); if summary['sessions'] == 0: return no_data
GetDataSummary ==
    /\ pc = "summary"
    /\ UNCHANGED batchVars
    /\ IF store.fault = "summary"
       THEN Raised /\ UNCHANGED << queries, summary, baseline >>
       ELSE /\ summary' = get_data_summary(store)
            /\ queries' = Append(queries, "summary")
            /\ output' = output
            /\ IF summary'.sessions = 0
               THEN baseline' = NoData /\ conn' = close(conn) /\ pc' = "returned"
               ELSE pc' = "prompts" /\ UNCHANGED << baseline, conn >>
    /\ UNCHANGED << command, runs, store, directories, loaded, fileVars, pipelineVars >>

\* prompts = self.get_all_user_prompts()
GetAllUserPrompts ==
    /\ pc = "prompts"
    /\ UNCHANGED batchVars
    /\ IF store.fault = "prompts"
       THEN Raised /\ UNCHANGED << queries, prompts >>
       ELSE /\ prompts' = get_all_user_prompts(store)
            /\ queries' = Append(queries, "prompts")
            /\ pc' = "classify"
            /\ UNCHANGED << conn, output >>
    /\ UNCHANGED << command, runs, store, summary, directories, baseline, loaded,
                    fileVars, text, classified, avg_dok, domain_count, stage,
                    weekly_scores, trajectory, dok_counts, dok_scores,
                    dok_distribution, weekly_breakdown, retained_weekly >>

\* the classification loop, the distribution and the average
ClassifyPrompts ==
    /\ pc = "classify"
    /\ UNCHANGED batchVars
    /\ LET counts[k \in 0..Len(prompts)] ==
               IF k = 0 THEN NoCounts ELSE CountPrompt(counts[k - 1], prompts[k].text)
           scores[k \in 0..Len(prompts)] ==
               IF k = 0 THEN NoScores ELSE AppendScore(scores[k - 1], prompts[k].text)
       IN  /\ dok_counts' = counts[Len(prompts)]
           /\ dok_scores' = scores[Len(prompts)]
    /\ dok_distribution' = Distribution(dok_counts')
    /\ avg_dok' = AverageOf(dok_scores')
    /\ pc' = "directories"
    /\ UNCHANGED << command, runs, store, conn, queries, summary, directories,
                    baseline, loaded, output, fileVars, text, classified,
                    domain_count, stage, weekly_scores, trajectory, prompts,
                    weekly_breakdown, retained_weekly >>

\* directories = self.get_sessions_by_directory(); domain_count = len(directories)
GetSessionsByDirectory ==
    /\ pc = "directories"
    /\ UNCHANGED batchVars
    /\ IF store.fault = "directories"
       THEN Raised /\ UNCHANGED << queries, directories, domain_count >>
       ELSE /\ directories' = get_sessions_by_directory(store)
            /\ domain_count' = Cardinality(DOMAIN directories')
            /\ queries' = Append(queries, "directories")
            /\ pc' = "weekly"
            /\ UNCHANGED << conn, output >>
    /\ UNCHANGED << command, runs, store, summary, baseline, loaded, fileVars,
                    text, classified, avg_dok, stage, weekly_scores, trajectory,
                    dok_counts, dok_scores, dok_distribution, prompts,
                    weekly_breakdown, retained_weekly >>

\* weekly breakdown, trajectory, stage, the baseline dict, finally: close()
ReturnBaseline ==
    /\ pc = "weekly"
    /\ UNCHANGED batchVars
    /\ weekly_breakdown' = get_weekly_breakdown(prompts)
    /\ weekly_scores' = AvgDokOf(weekly_breakdown')
    /\ retained_weekly' = LastWeeks(weekly_breakdown')
    /\ trajectory' = calculate_trajectory(weekly_scores')
    /\ stage' = estimate_stage(avg_dok, domain_count)
    /\ baseline' = BuildBaseline(runs, summary, dok_counts, dok_distribution, avg_dok,
                                 stage', directories, trajectory', weekly_breakdown')
    /\ last_generated' = baseline'
    /\ conn' = close(conn)
    /\ pc' = "returned"
    /\ UNCHANGED << command, runs, store, queries, summary, directories, loaded,
                    output, baseline_file, file_at_start, last_saved, torn, text,
                    classified, avg_dok, domain_count, dok_counts, dok_scores,
                    dok_distribution, prompts >>

\* main: if baseline and 'error' not in baseline: analyzer.save_baseline(baseline)
SaveBaseline ==
    /\ pc = "returned"
    /\ UNCHANGED batchVars
    /\ IsSnapshot(baseline)
    /\ \E outcome \in SaveOutcomes :
          /\ baseline_file' = save_baseline(baseline_file, baseline, outcome)
          /\ output' = IF outcome = "saved" THEN output
                       ELSE Append(output, "error saving baseline")
          /\ last_saved' = IF outcome = "saved" THEN baseline ELSE last_saved
          /\ torn' = CASE outcome = "saved" -> FALSE
                       [] outcome = "write_failed" -> TRUE
                       [] outcome = "not_opened" -> torn
    /\ pc' = "report"
    /\ UNCHANGED << command, runs, store, conn, queries, summary, directories,
                    baseline, loaded, file_at_start, last_generated, pipelineVars >>

\* main: analyzer.print_baseline_report(baseline), whatever save returned
PrintBaselineReport ==
    /\ pc = "report"
    /\ UNCHANGED batchVars
    /\ output' = Append(output, "report")
    /\ pc' = "done"
    /\ UNCHANGED << command, runs, store, conn, queries, summary, directories,
                    baseline, loaded, fileVars, pipelineVars >>

\* main: elif baseline: print(baseline.get('message', 'Unknown error'))
PrintNoData ==
    /\ pc = "returned"
    /\ UNCHANGED batchVars
    /\ baseline = NoData
    /\ output' = Append(output, baseline.message)
    /\ pc' = "done"
    /\ UNCHANGED << command, runs, store, conn, queries, summary, directories,
                    baseline, loaded, fileVars, pipelineVars >>

\* main: else: print("Failed to generate baseline")
PrintFailed ==
    /\ pc = "returned"
    /\ UNCHANGED batchVars
    /\ baseline = None
    /\ output' = Append(output, "Failed to generate baseline")
    /\ pc' = "done"
    /\ UNCHANGED << command, runs, store, conn, queries, summary, directories,
                    baseline, loaded, fileVars, pipelineVars >>

\* main: baseline = analyzer.load_baseline(); the read may fail
LoadBaseline ==
    /\ pc = "load"
    /\ UNCHANGED batchVars
    /\ \E readable \in BOOLEAN :
          /\ loaded' = load_baseline(baseline_file, readable)
          /\ output' = IF baseline_file = Absent \/ (baseline_file.kind = "text" /\ readable)
                       THEN output
                       ELSE Append(output, "error loading baseline")
    /\ pc' = "loaded"
    /\ UNCHANGED << command, runs, store, conn, queries, summary, directories,
                    baseline, fileVars, pipelineVars >>

\* main: what show, export and compare print for the loaded baseline
PrintLoaded ==
    /\ pc = "loaded"
    /\ UNCHANGED batchVars
    /\ output' = Append(output,
                    CASE loaded = None -> "No baseline found"
                      [] command = "show" -> "report"
                      [] command = "export" -> "document"
                      [] command = "compare" -> "baseline summary")
    /\ pc' = "done"
    /\ UNCHANGED << command, runs, store, conn, queries, summary, directories,
                    baseline, loaded, fileVars, pipelineVars >>

\* the process ends, normally or by the exception; nothing of it remains
ProcessExit ==
    /\ pc \in {"done", "crashed"}
    /\ UNCHANGED batchVars
    /\ pc' = "idle" /\ command' = "none" /\ store' = NoStore /\ conn' = "none"
    /\ queries' = << >> /\ summary' = Pending /\ directories' = Pending
    /\ baseline' = Pending /\ loaded' = Pending /\ output' = << >>
    /\ text' = None /\ classified' = Pending
    /\ avg_dok' = Frac(2, 1) /\ domain_count' = 0 /\ stage' = 0
    /\ weekly_scores' = << >> /\ trajectory' = "pending"
    /\ dok_counts' = NoCounts /\ dok_scores' = NoScores /\ dok_distribution' = Pending
    /\ prompts' = << >> /\ weekly_breakdown' = NoList /\ retained_weekly' = NoList
    /\ UNCHANGED << runs, fileVars >>

Next ==
    \/ StartInit
    \/ StartLoad
    \/ Connect
    \/ GetDataSummary
    \/ GetAllUserPrompts
    \/ ClassifyPrompts
    \/ GetSessionsByDirectory
    \/ ReturnBaseline
    \/ SaveBaseline
    \/ PrintBaselineReport
    \/ PrintNoData
    \/ PrintFailed
    \/ LoadBaseline
    \/ PrintLoaded
    \/ ProcessExit

Spec == Init /\ [][Next]_vars

\* an init is between its start and the end of generate_baseline
C6_Generating ==
    command = "init" /\ pc \in {"connect", "summary", "prompts", "classify",
                                "directories", "weekly", "returned"}

\* the command that ran is not an init that generated a baseline
C6_NoNewBaseline ==
    pc \in {"done", "crashed"} /\ ~(command = "init" /\ IsSnapshot(baseline))

\* C6 as stated: after any sequence of commands the persisted record is the
\* snapshot of the most recent init whose generation succeeded and loading it
\* returns that document; show, export, compare and an init that fails or
\* finds no data leave the record unchanged.
C6_Original ==
    /\ (~C6_Generating /\ last_generated # None) =>
           /\ baseline_file.kind = "text"
           /\ json_load(baseline_file.json) = last_generated
    /\ (pc = "loaded" /\ last_generated # None) => loaded = last_generated
    /\ C6_NoNewBaseline => baseline_file = file_at_start

\* C6 amended: the persisted record is the snapshot of the most recent init
\* whose generation succeeded and whose save completed, without merge, unless
\* a later save failed after emptying the file, which leaves it unreadable;
\* loading returns that document when the record is readable and the read
\* succeeds, and nothing otherwise; show, export, compare and an init that
\* fails or finds no data leave the record unchanged.
C6_Persisted ==
    /\ torn => baseline_file = Truncated
    /\ (~torn /\ last_saved = None) => baseline_file = Absent
    /\ (~torn /\ last_saved # None) =>
           /\ baseline_file.kind = "text"
           /\ json_load(baseline_file.json) = last_saved
    /\ pc = "loaded" =>
           /\ loaded = None \/ loaded = last_saved
           /\ (torn \/ last_saved = None) => loaded = None
    /\ C6_NoNewBaseline => baseline_file = file_at_start

\* a show, export or compare loads the baseline of an earlier init after a
\* later init generated another baseline and could not save it
C6_Witness ==
    /\ pc = "loaded"
    /\ loaded # None
    /\ loaded = last_saved
    /\ last_generated # last_saved
    /\ ~torn

\* an init over a database that opens, answers the summary query and holds
\* no session of type user
C7_ZeroUserSessions ==
    /\ command = "init"
    /\ store.access = "ok"
    /\ store.fault # "summary"
    /\ UserSessions(store) = {}

\* C7: with zero user sessions generate_baseline returns no_data right after
\* the summary query: no prompt is fetched or classified, no distribution,
\* weekly rollup, trend or stage is computed; init prints the message, saves
\* nothing and raises no exception.
C7_NoData ==
    C7_ZeroUserSessions =>
        /\ pc \in {"connect", "summary", "returned", "done"}
        /\ pc \in {"returned", "done"} =>
              /\ baseline = NoData
              /\ queries = << "summary" >>
              /\ prompts = << >>
              /\ DistributionUnused
              /\ weekly_breakdown = NoList
              /\ directories = Pending
              /\ trajectory = "pending"
              /\ stage = 0
              /\ baseline_file = file_at_start
        /\ pc = "done" =>
              output = << "analyzing", "No sessions found in database" >>

\* an init over a database with a session that is not of type user has ended
C7_Witness ==
    /\ C7_ZeroUserSessions
    /\ store.sessions # {}
    /\ store.fault = "prompts"
    /\ pc = "done"
    /\ baseline = NoData

\* C8: a data-access failure during init, at connect time or in the summary,
\* prompt or directory query, is caught and reported, generation aborts with
\* no snapshot, and no exception propagates to a top-level crash.
C8_Caught ==
    /\ pc # "crashed"
    /\ (command = "init" /\ pc = "done" /\ store.access # "ok") =>
           /\ baseline = None
           /\ output[Len(output)] = "Failed to generate baseline"
           /\ baseline_file = file_at_start

\* C9: a connection opened by generate_baseline is closed when generate_baseline
\* ends, on every exit path, hence before any save or report.
C9_Closed ==
    (command = "init" /\ pc \in {"returned", "report", "done", "crashed"}) =>
        conn = (IF store.access = "ok" THEN "closed" ELSE "none")

\* a query raised mid-generation, and the connection is closed
C9_Witness ==
    /\ command = "init"
    /\ pc = "crashed"
    /\ store.fault = "directories"
    /\ conn = "closed"

----------------------------------------------------------------------------
(* A batch of message rows on its own: the rows the query returned are     *)
(* turned into prompts, then the prompts into weekly rollups.              *)

\* Bound of the number of rows in a batch
MaxRows == 3

\* content_json that is valid JSON but not a list: a number, an object
JsonScalar == [kind |-> "scalar"]
JsonObject == [kind |-> "object"]

\* the contents a row may carry: two with a usable text, and one of each kind
\* of content that has none
GoodContents ==
    { Json(<< TextItem(Str(<< "WHY" >>)) >>),
      Json(<< ImageItem, TextItem(Str(<< "Fix" >>)) >>) }
BadContents ==
    { Garbage, None, JsonScalar, JsonObject,
      Json(<< ImageItem >>),
      Json(<< TextItem(None) >>),
      Json(<< TextItem(EmptyStr), TextItem(Str(<< "WHY" >>)) >>),
      Json(<< TextItem(Number(5)) >>) }

\* rows by content and session date; created_timestamp is set by position
BatchRows ==
    { [content_json |-> c, session_date |-> d] :
          c \in { Json(<< TextItem(Str(<< "WHY" >>)) >>) },
          d \in { Date(2024, 339), Garbage, None } }
    \cup { [content_json |-> c, session_date |-> Date(2025, 8)] :
              c \in (GoodContents \cup BadContents) \
                        { Json(<< TextItem(Str(<< "WHY" >>)) >>) } }

Batch(rowseq) ==
    [i \in 1..Len(rowseq) |->
        [session_id |-> 1, session_date |-> rowseq[i].session_date,
         working_dir |-> "/a", content_json |-> rowseq[i].content_json,
         created_timestamp |-> 10 * i]]

InitBatch ==
    /\ \E rowseq \in SeqsUpTo(BatchRows, MaxRows) : fetched = Batch(rowseq)
    /\ raised = "none"
    /\ prompts = NoList
    /\ weekly_breakdown = NoList
    /\ retained_weekly = NoList
    /\ ClassifyUnused
    /\ StageUnused
    /\ TrajectoryUnused
    /\ DistributionUnused
    /\ MainUnused

\* text.lower() on a text that is not a str raises AttributeError
LowerRaises(t) == t.kind # "str"

\* get_all_user_prompts, after the query
ExtractBatch ==
    /\ prompts = NoList
    /\ prompts' = ExtractPrompts(fetched)
    /\ UNCHANGED << fetched, raised, weekly_breakdown, retained_weekly, classifyVars,
                    stageVars, trajectoryVars, distributionVars, mainVars >>

\* get_weekly_breakdown(prompts): classify_dok is called for the prompts whose
\* session_date parses; AttributeError is not among the exceptions caught
WeeklyBatch ==
    /\ prompts # NoList
    /\ weekly_breakdown = NoList
    /\ raised = "none"
    /\ IF \E i \in 1..Len(prompts) : HasWeek(prompts[i]) /\ LowerRaises(prompts[i].text)
       THEN raised' = "AttributeError" /\ UNCHANGED weekly_breakdown
       ELSE weekly_breakdown' = get_weekly_breakdown(prompts) /\ UNCHANGED raised
    /\ UNCHANGED << fetched, prompts, retained_weekly, classifyVars, stageVars,
                    trajectoryVars, distributionVars, mainVars >>

NextBatch == ExtractBatch \/ WeeklyBatch

SpecBatch == InitBatch /\ [][NextBatch]_vars

\* the text of the first text-tagged item of a list of items, None without one
C11_FirstText(c) ==
    LET tagged == {i \in 1..Len(c.items) : c.items[i].type = "text"}
    IN  IF tagged = {} THEN None
        ELSE c.items[CHOOSE i \in tagged : \A k \in tagged : i <= k].text

\* a row the statement does not ask to skip: its content is a list of items
\* whose first text-tagged item carries a non-empty string
C11_Usable(row) ==
    /\ row.content_json.kind = "json"
    /\ C11_FirstText(row.content_json).kind = "str"
    /\ C11_FirstText(row.content_json) # EmptyStr

\* a row whose first text-tagged item carries a text that is not a string
C11_NonString(row) ==
    /\ row.content_json.kind = "json"
    /\ C11_FirstText(row.content_json).kind = "int"

C11_Body ==
    /\ raised = "none"
    /\ prompts # NoList =>
          LET usable == SelectSeq(fetched, C11_Usable)
          IN  /\ Len(prompts) = Len(usable)
              /\ \A i \in 1..Len(prompts) :
                    /\ prompts[i].timestamp = usable[i].created_timestamp
                    /\ prompts[i].text = C11_FirstText(usable[i].content_json)
              /\ \A i \in 1..Len(prompts), j \in 1..Len(prompts) :
                    i < j => prompts[i].timestamp < prompts[j].timestamp
    /\ weekly_breakdown # NoList =>
          SumScoresOf([i \in 1..Len(weekly_breakdown) |-> weekly_breakdown[i].prompt_count])
              = Cardinality({i \in 1..Len(prompts) : prompts[i].session_date.kind = "date"})

\* C11 as stated: a row whose content is malformed, is not a list, has no
\* text-tagged item, or whose first text-tagged item carries absent, empty or
\* non-string text yields no prompt, a prompt whose session date does not
\* parse is left out of the weekly rollup, no exception escapes, and every
\* other row yields its prompt in ascending creation-time order.
C11_Skips == C11_Body

\* the same for batches without a non-string text
C11_StringTexts ==
    (\A i \in 1..Len(fetched) : ~C11_NonString(fetched[i])) => C11_Body

----------------------------------------------------------------------------
(* The baseline dict on its own: from a prompt list and the directories,   *)
(* generate_baseline computes the average, the stage and the dict.         *)

\* Bound of the number of prompts behind a baseline
MaxScores == 44

\* a text of each tier
TierText ==
    << Str(<< "how", "to" >>), Str(<< "Fix" >>), Str(<< "WHY" >>), Str(<< "research" >>) >>

\* n prompts of sessions without a date, k of tier hi and the others of tier lo
TierPairs == { << 1, 2 >>, << 2, 3 >>, << 3, 4 >> }
SnapshotPrompts(lo, hi, n, k) ==
    [i \in 1..n |-> Prompt(None, TierText[IF i <= k THEN hi ELSE lo])]

\* the result of get_sessions_by_directory for k working directories
DirNames == << "/d1", "/d2", "/d3", "/d4", "/d5", "/d6", "/d7", "/d8" >>
DirectoriesOf(k) == [d \in {DirNames[i] : i \in 1..k} |-> [count |-> 1, tokens |-> 0]]

SnapshotSummary ==
    [sessions |-> 1, earliest |-> Date(2024, 339), latest |-> Date(2024, 339), days |-> 0]

InitSnapshot ==
    /\ \E pair \in TierPairs, n \in 0..MaxScores :
          \E k \in 0..n : prompts = SnapshotPrompts(pair[1], pair[2], n, k)
    /\ \E k \in 0..MaxDomains : directories = DirectoriesOf(k)
    /\ summary = SnapshotSummary
    /\ weekly_breakdown = NoList /\ retained_weekly = NoList
    /\ pc = "idle" /\ command = "none" /\ store = NoStore /\ conn = "none"
    /\ queries = << >> /\ baseline = Pending /\ loaded = Pending /\ output = << >>
    /\ runs = 0
    /\ baseline_file = Absent /\ file_at_start = Absent
    /\ last_generated = None /\ last_saved = None /\ torn = FALSE
    /\ ClassifyUnused
    /\ StageUnused
    /\ TrajectoryUnused
    /\ DistributionUnused
    /\ BatchUnused

\* generate_baseline from the classification loop to the baseline dict
AssembleBaseline ==
    /\ baseline = Pending
    /\ LET counts[k \in 0..Len(prompts)] ==
               IF k = 0 THEN NoCounts ELSE CountPrompt(counts[k - 1], prompts[k].text)
           scores[k \in 0..Len(prompts)] ==
               IF k = 0 THEN NoScores ELSE AppendScore(scores[k - 1], prompts[k].text)
       IN  /\ dok_counts' = counts[Len(prompts)]
           /\ dok_scores' = scores[Len(prompts)]
    /\ dok_distribution' = Distribution(dok_counts')
    /\ avg_dok' = AverageOf(dok_scores')
    /\ domain_count' = Cardinality(DOMAIN directories)
    /\ weekly_breakdown' = get_weekly_breakdown(prompts)
    /\ weekly_scores' = AvgDokOf(weekly_breakdown')
    /\ retained_weekly' = LastWeeks(weekly_breakdown')
    /\ trajectory' = calculate_trajectory(weekly_scores')
    /\ stage' = estimate_stage(avg_dok', domain_count')
    /\ baseline' = BuildBaseline(runs, summary, dok_counts', dok_distribution', avg_dok',
                                 stage', directories, trajectory', weekly_breakdown')
    /\ UNCHANGED << pc, command, runs, store, conn, queries, summary, directories,
                    loaded, output, fileVars, batchVars, text, classified, prompts >>

NextSnapshot == AssembleBaseline

SpecSnapshot == InitSnapshot /\ [][NextSnapshot]_vars

\* the unrounded mean of the classified tiers, 2.0 without prompts
C12_Mean ==
    IF dok_scores.len > 0 THEN Frac(dok_scores.sum, dok_scores.len) ELSE Frac(2, 1)

\* the stage the rules give for the average the baseline reports
C12_StageOfStored ==
    estimate_stage(Frac(baseline.average_dok_score, 100), baseline.domain_count)

\* C12 as stated: in every baseline, estimated_stage equals estimate_stage
\* applied to the stored average_dok_score and domain_count.
C12_Original ==
    IsSnapshot(baseline) => baseline.estimated_stage = C12_StageOfStored

\* C12 amended: estimated_stage equals estimate_stage applied to the unrounded
\* mean and domain_count; it is never above the stage of the stored average,
\* and differs from it only when the mean is below the threshold 2.8 or 3.5
\* and the stored average is not.
C12_Stage ==
    IsSnapshot(baseline) =>
        /\ baseline.estimated_stage = estimate_stage(C12_Mean, baseline.domain_count)
        /\ baseline.estimated_stage <= C12_StageOfStored
        /\ baseline.estimated_stage # C12_StageOfStored =>
              \E t \in {28, 35} :
                  /\ ~FracLe(Frac(t, 10), C12_Mean)
                  /\ FracLe(Frac(t, 10), Frac(baseline.average_dok_score, 100))

\* a baseline of 44 prompts with mean 123/44, stored as 2.8, over at least 3
\* directories: stage 5, where the stored average gives 6
C12_Witness ==
    /\ IsSnapshot(baseline)
    /\ baseline.average_dok_score = 280
    /\ baseline.domain_count >= 3
    /\ baseline.estimated_stage = 5
    /\ C12_StageOfStored = 6


=============================================================================
